---- MODULE Spec2Model ----
(***************************************************************************)
(* konstruktor: a pool of workers computes factorials of generated tasks,  *)
(* replaces the result of a task that took longer than 110% of the         *)
(* worker's rolling average by 0, and the collector restores task order.   *)
(*                                                                         *)
(* Modelled snapshot: src/worker/worker.go lines 169-371 (worker package   *)
(* with the quit channel and a per-worker history), the coordinator of     *)
(* src/unnamed/part_004 lines 77-127 and the harness of                    *)
(* src/worker/worker_test.go.  Durations are abstract clock ticks.         *)
(***************************************************************************)
EXTENDS Integers, Sequences, FiniteSets, TLC

\* ------------------------------------------------------------------ bounds
MaxTasks == 2
MaxWorkers == 2
MaxUnitK == 3
MaxInput == 3
MaxTable == 2

\* ------------------------------------------------------- program constants
maxProcessingTimesToTrack == 20
RandOffset == 3
IntnBound == 998
NilInt == -1

\* Elapsed times time.Since can report for one computation, in ticks: the
\* pool runs with two of them, the single-worker harness with more.
Durations == {1, 2}
\* Capacities a pool worker is configured with: a small one and the default.
Capacities == {1, maxProcessingTimesToTrack}
\* Outcomes of rand.Intn(998) the task source is run with.
RandSamples == {0, 1}
UnitDurations == {0, 1, 100, 110, 111}

\* Histories the harness seeds a worker with (testWorker.processingTimes = ...).
SeedDurations == {0, 1, 100}
TestSeed == <<100, 200, 300>>
TestDelay == 500

VARIABLES
    numTasks,       \* const numTasks / len(tasks) of the harness
    numWorkers,     \* numWorkers of main
    testValues,     \* the harness' task values (<<>> when GenerateTasks feeds)
    simulateDelay,  \* ticks slept by the simulateDelay hook, 0 when it is nil
    tasksCap,       \* capacity of the tasks channel, 0 when it is unbuffered
    resultsCap,     \* capacity of the results channel
    input,          \* the Results a caller of SortResults alone put on the channel
    globalTimes,    \* the package-level processingTimes of the shared-history snapshot
    tasks,          \* buffer of the tasks channel
    tasksClosed,
    results,        \* buffer of the results channel
    resultsClosed,
    quitClosed,     \* the quit channel is closed
    wg,             \* the WaitGroup counter
    genI,           \* loop index i of the task source
    genDone,        \* the task source has closed the tasks channel
    worker,         \* workerID -> fields and locals of Worker.Start
    closerPc,       \* the goroutine wg.Wait(); close(results); close(quit)
    sortedResult,   \* SortResults: the pre-sized slice, index id + 1
    colPc,          \* SortResults: "draining" | "complete"
    output,         \* the slice SortResults returned
    panicked,       \* an unrecovered panic has ended the process
    takenBy,        \* history: task id -> workers that received it
    published,      \* history: task id -> Results sent for it
    recorded,       \* history: workerID -> every duration put in its history
    midTask,        \* history: ids of the tasks held when quit was forced
    outOfOrder      \* history: a Result arrived after one with a larger id

vars == <<numTasks, numWorkers, testValues, simulateDelay, tasksCap, resultsCap,
          input, globalTimes, tasks, tasksClosed,
          results, resultsClosed, quitClosed, wg, genI, genDone,
          worker, closerPc, sortedResult, colPc, output, panicked, takenBy,
          published, recorded, midTask, outOfOrder>>

config == <<numTasks, numWorkers, testValues, simulateDelay, tasksCap, resultsCap,
            input, globalTimes>>
ghosts == <<takenBy, published, recorded, midTask, outOfOrder>>

Workers == 0 .. (numWorkers - 1)
TaskIds == 0 .. (numTasks - 1)

\* ------------------------------------------------------------------- data
Task(id, value) == [ID |-> id, Value |-> value]

Result(task, factorial) == [Task |-> task, Factorial |-> factorial, WorkerID |-> 0]

ZeroTask == Task(0, 0)

ZeroResult == Result(ZeroTask, NilInt)

\* --------------------------------------------------------- pure functions
RECURSIVE FactLoop(_, _, _)
FactLoop(i, n, result) ==
    IF i <= n THEN FactLoop(i + 1, n, result * i) ELSE result

\* Mutant: the loop stops one factor short.
calcFactorialShort(n) == IF n < 0 THEN 0 ELSE FactLoop(1, n - 1, 1)

\* Mutant: the product starts from big.NewInt(0).
calcFactorialFromZero(n) == IF n < 0 THEN 0 ELSE FactLoop(1, n, 0)

calcFactorial(n) == IF n < 0 THEN 0 ELSE FactLoop(1, n, 1)

\* Go's integer division truncates toward zero.
GoDiv(a, b) ==
    IF (a >= 0) = (b > 0) THEN (IF a >= 0 THEN a ELSE -a) \div (IF b > 0 THEN b ELSE -b)
    ELSE -((IF a >= 0 THEN a ELSE -a) \div (IF b > 0 THEN b ELSE -b))

RECURSIVE SumSeq(_)
SumSeq(s) == IF s = <<>> THEN 0 ELSE Head(s) + SumSeq(Tail(s))

calculateAverageProcessingTime(processingTimes) ==
    IF Len(processingTimes) = 0 THEN 0
    ELSE GoDiv(SumSeq(processingTimes), Len(processingTimes))

\* Mutant: the capacity test is off by one.
updateProcessingTimesLate(processingTimes, processingTime, k) ==
    LET kept == IF Len(processingTimes) > k
                THEN SubSeq(processingTimes, 2, Len(processingTimes))
                ELSE processingTimes
    IN  Append(kept, processingTime)

\* Mutant: the newest sample is evicted instead of the oldest.
updateProcessingTimesNewest(processingTimes, processingTime, k) ==
    LET kept == IF Len(processingTimes) >= k
                THEN SubSeq(processingTimes, 1, Len(processingTimes) - 1)
                ELSE processingTimes
    IN  Append(kept, processingTime)

updateProcessingTimes(processingTimes, processingTime, k) ==
    LET kept == IF Len(processingTimes) >= k
                THEN SubSeq(processingTimes, 2, Len(processingTimes))
                ELSE processingTimes
    IN  Append(kept, processingTime)

\* Mutant: no slack over the average.
allowedTimeThresholdNoSlack(averageTime) == averageTime

allowedTimeThreshold(averageTime) == averageTime + GoDiv(averageTime, 10)

\* Mutant: a duration equal to the threshold already counts.
exceedsLimitInclusive(processingTime, averageTime) ==
    /\ processingTime > 0
    /\ averageTime > 0
    /\ processingTime >= averageTime + GoDiv(averageTime, 10)

\* Mutant: the guard on the average is missing.
exceedsLimitNoAverageGuard(processingTime, averageTime) ==
    /\ processingTime > 0
    /\ processingTime > averageTime + GoDiv(averageTime, 10)

exceedsLimit(processingTime, averageTime) ==
    /\ processingTime > 0
    /\ averageTime > 0
    /\ processingTime > allowedTimeThreshold(averageTime)

\* Mutant: the average is read after the duration was inserted.
processOneInsertFirst(task, processingTimes, processingTime, k) ==
    LET result == calcFactorial(task.Value)
        updated == updateProcessingTimes(processingTimes, processingTime, k)
        averageTime == calculateAverageProcessingTime(updated)
    IN  [ averageTime     |-> averageTime,
          processingTimes |-> updated,
          result          |-> IF exceedsLimit(processingTime, averageTime)
                              THEN 0 ELSE result ]

\* Mutant: the duration of a task judged anomalous is not inserted.
processOneSkipAnomalous(task, processingTimes, processingTime, k) ==
    LET result == calcFactorial(task.Value)
        averageTime == calculateAverageProcessingTime(processingTimes)
        anomalous == exceedsLimit(processingTime, averageTime)
    IN  [ averageTime     |-> averageTime,
          processingTimes |-> IF anomalous THEN processingTimes
                              ELSE updateProcessingTimes(processingTimes, processingTime, k),
          result          |-> IF anomalous THEN 0 ELSE result ]

\* The body of the task case of Worker.Start between the receive and the send.
processOne(task, processingTimes, processingTime, k) ==
    LET result == calcFactorial(task.Value)
        averageTime == calculateAverageProcessingTime(processingTimes)
    IN  [ averageTime     |-> averageTime,
          processingTimes |-> updateProcessingTimes(processingTimes, processingTime, k),
          result          |-> IF exceedsLimit(processingTime, averageTime)
                              THEN 0 ELSE result ]

\* sort.SliceStable by Task.ID, as a stable insertion sort.
RECURSIVE InsertStable(_, _)
InsertStable(s, r) ==
    IF s = <<>> THEN <<r>>
    ELSE IF r.Task.ID < s[Len(s)].Task.ID
         THEN Append(InsertStable(SubSeq(s, 1, Len(s) - 1), r), s[Len(s)])
         ELSE Append(s, r)

\* Mutant: the sort leaves the slice in descending order of id.
RECURSIVE SortSliceDescending(_)
SortSliceDescending(s) ==
    IF s = <<>> THEN <<>>
    ELSE LET rest == SortSliceDescending(SubSeq(s, 1, Len(s) - 1))
             r == s[Len(s)]
             before == SelectSeq(rest, LAMBDA x : x.Task.ID >= r.Task.ID)
             after == SelectSeq(rest, LAMBDA x : x.Task.ID < r.Task.ID)
         IN  before \o <<r>> \o after

RECURSIVE SortSliceStable(_)
SortSliceStable(s) ==
    IF s = <<>> THEN <<>>
    ELSE InsertStable(SortSliceStable(SubSeq(s, 1, Len(s) - 1)), s[Len(s)])

\* ---------------------------------------------------------------- initial
InitRun ==
    /\ globalTimes = <<>>
    /\ tasks = <<>> /\ tasksClosed = FALSE
    /\ results = <<>> /\ resultsClosed = FALSE
    /\ quitClosed = FALSE
    /\ wg = numWorkers /\ genI = 0 /\ genDone = FALSE
    /\ closerPc = "wait"
    /\ sortedResult = [i \in 1 .. numTasks |-> ZeroResult]
    /\ colPc = "draining" /\ output = <<>>
    /\ panicked = FALSE
    /\ takenBy = [id \in TaskIds |-> <<>>]
    /\ published = [id \in TaskIds |-> <<>>]
    /\ midTask = {}
    /\ outOfOrder = FALSE

NewWorker(k, seed) ==
    [ pc |-> "select", task |-> ZeroTask, result |-> NilInt, processingTime |-> 0,
      averageTime |-> 0, processingTimes |-> seed, maxProcessingTimesToTrack |-> k,
      exit |-> "none" ]

\* main and the tests make both channels with capacity numTasks.
InitShared ==
    /\ tasksCap = numTasks /\ resultsCap = numTasks
    /\ input = <<>>
    /\ InitRun

Init ==
    /\ numTasks \in 0 .. MaxTasks
    /\ numWorkers \in 1 .. MaxWorkers
    /\ testValues = <<>>
    /\ simulateDelay = 0
    /\ \E k \in Capacities :
           worker = [w \in Workers |-> NewWorker(k, <<>>)]
    /\ recorded = [w \in Workers |-> <<>>]
    /\ InitShared

\* The harness of worker_test.go: one worker whose capacity and history the
\* test sets before it starts it, the simulateDelay hook set or nil, and the
\* task values of the two tests.
RECURSIVE SeqsUpTo(_, _)
SeqsUpTo(S, n) ==
    IF n = 0 THEN {<<>>}
    ELSE LET shorter == SeqsUpTo(S, n - 1)
         IN  shorter \cup {Append(s, x) : s \in shorter, x \in S}

InitUnit ==
    /\ testValues \in {<<3>>, <<3, 5, 7>>}
    /\ numTasks = Len(testValues)
    /\ numWorkers = 1
    /\ simulateDelay \in {0, TestDelay}
    /\ \E k \in 1 .. MaxUnitK :
         \E seed \in SeqsUpTo(SeedDurations, 2) \cup {TestSeed} :
           /\ Len(seed) <= k
           /\ worker = [w \in Workers |-> NewWorker(k, seed)]
           /\ recorded = [w \in Workers |-> seed]
    /\ InitShared

\* The pool as worker.New builds it, for the runs in which quit is forced.
InitForced ==
    /\ numTasks \in 0 .. MaxTasks
    /\ numWorkers \in 1 .. MaxWorkers
    /\ testValues = <<>>
    /\ simulateDelay = 0
    /\ worker = [w \in Workers |-> NewWorker(maxProcessingTimesToTrack, <<>>)]
    /\ recorded = [w \in Workers |-> <<>>]
    /\ InitShared

\* ----------------------------------------------------------------- actions
\* The test: taskChannel <- Task{ID: i, Value: task}, for i, task := range tasks
TestSend ==
    /\ ~panicked
    /\ ~genDone /\ genI < Len(testValues)
    /\ Len(tasks) < tasksCap
    /\ tasks' = Append(tasks, Task(genI, testValues[genI + 1]))
    /\ genI' = genI + 1
    /\ UNCHANGED <<config, tasksClosed, results, resultsClosed, quitClosed, wg,
                   genDone, worker, closerPc, sortedResult, colPc, output,
                   panicked, ghosts>>

\* The test: close(taskChannel)
TestClose ==
    /\ ~panicked
    /\ ~genDone /\ genI >= Len(testValues)
    /\ tasksClosed' = TRUE
    /\ genDone' = TRUE
    /\ UNCHANGED <<config, tasks, results, resultsClosed, quitClosed, wg, genI,
                   worker, closerPc, sortedResult, colPc, output, panicked,
                   ghosts>>

\* The owner of the quit channel closes it while the pool runs.
ForceShutdown ==
    /\ ~panicked
    /\ ~quitClosed
    /\ quitClosed' = TRUE
    /\ midTask' = {worker[w].task.ID : w \in {v \in Workers : worker[v].pc = "work"}}
    /\ UNCHANGED <<config, tasks, tasksClosed, results, resultsClosed, wg, genI,
                   genDone, worker, closerPc, sortedResult, colPc, output, panicked,
                   takenBy, published, recorded, outOfOrder>>

\* Mutant: the value is the random number itself.
GenSendNoOffset(r) ==
    /\ ~panicked
    /\ ~genDone /\ genI < numTasks
    /\ Len(tasks) < tasksCap
    /\ tasks' = Append(tasks, Task(genI, r))
    /\ genI' = genI + 1
    /\ UNCHANGED <<config, tasksClosed, results, resultsClosed, quitClosed, wg,
                   genDone, closerPc, sortedResult, colPc, output, worker,
                   panicked, ghosts>>

\* GenerateTasks: one iteration of the loop, value = rand.Intn(998) + 3
\* On an unbuffered channel the send completes with the receive of a worker
\* that waits in its select.
GenSend(r) ==
    /\ ~panicked
    /\ ~genDone /\ genI < numTasks
    /\ IF tasksCap = 0
       THEN /\ \E w \in Workers :
                 /\ worker[w].pc = "select"
                 /\ worker' = [worker EXCEPT ![w].pc = "work",
                                             ![w].task = Task(genI, r + RandOffset)]
                 /\ takenBy' = [takenBy EXCEPT ![genI] = Append(@, w)]
            /\ tasks' = tasks
       ELSE /\ Len(tasks) < tasksCap
            /\ tasks' = Append(tasks, Task(genI, r + RandOffset))
            /\ UNCHANGED <<worker, takenBy>>
    /\ genI' = genI + 1
    /\ UNCHANGED <<config, tasksClosed, results, resultsClosed, quitClosed, wg,
                   genDone, closerPc, sortedResult, colPc, output,
                   panicked, published, recorded, midTask, outOfOrder>>

\* Mutant: GenerateTasks returns without close(tasks).
GenCloseForgotten ==
    /\ ~panicked
    /\ ~genDone /\ genI >= numTasks
    /\ genDone' = TRUE
    /\ UNCHANGED <<config, tasks, tasksClosed, results, resultsClosed, quitClosed, wg,
                   genI, worker, closerPc, sortedResult, colPc, output, panicked,
                   ghosts>>

\* Mutant: close(tasks) is not ordered after the loop.
GenCloseAnyTime ==
    /\ ~panicked
    /\ ~genDone
    /\ tasksClosed' = TRUE
    /\ genDone' = TRUE
    /\ UNCHANGED <<config, tasks, results, resultsClosed, quitClosed, wg, genI,
                   worker, closerPc, sortedResult, colPc, output, panicked,
                   ghosts>>

\* GenerateTasks: close(tasks) after the loop
GenClose ==
    /\ ~panicked
    /\ ~genDone /\ genI >= numTasks
    /\ tasksClosed' = TRUE
    /\ genDone' = TRUE
    /\ UNCHANGED <<config, tasks, results, resultsClosed, quitClosed, wg, genI, worker, closerPc, sortedResult, colPc, output, panicked,
                   ghosts>>

\* Mutant: the select has no quit case.
ReadyCasesNoQuit ==
    (IF tasks # <<>> THEN {"task"} ELSE {})
    \cup (IF tasks = <<>> /\ tasksClosed THEN {"closed"} ELSE {})

\* The cases of the select in Worker.Start that can proceed.
ReadyCases ==
    (IF tasks # <<>> THEN {"task"} ELSE {})
    \cup (IF tasks = <<>> /\ tasksClosed THEN {"closed"} ELSE {})
    \cup (IF quitClosed THEN {"quit"} ELSE {})

\* Mutant: the receive leaves the element in the buffer.
ReceivePeek(ch) == ch

Receive(ch) == Tail(ch)

\* Mutant: wg.Done() is called where the closed queue is seen, not deferred, so
\* the return of the quit case skips it.
WorkerSelectDoneOnClosedOnly(w) ==
    /\ ~panicked
    /\ worker[w].pc = "select"
    /\ \E c \in ReadyCases :
        IF c = "task"
        THEN /\ worker' = [worker EXCEPT ![w].pc = "work", ![w].task = Head(tasks)]
             /\ tasks' = Receive(tasks)
             /\ takenBy' = [takenBy EXCEPT ![Head(tasks).ID] = Append(@, w)]
             /\ wg' = wg
        ELSE /\ worker' = [worker EXCEPT ![w].pc = "done", ![w].exit = c]
             /\ wg' = IF c = "closed" THEN wg - 1 ELSE wg
             /\ UNCHANGED <<tasks, takenBy>>
    /\ UNCHANGED <<config, tasksClosed, results, resultsClosed, quitClosed, genI,
                   genDone, closerPc, sortedResult, colPc, output, panicked,
                   published, recorded, midTask, outOfOrder>>

\* Mutant: the loop returns to the select without waiting for its send.
WorkerSelectWhileSending(w) ==
    /\ ~panicked
    /\ worker[w].pc \in {"select", "send"}
    /\ \E c \in ReadyCases :
        IF c = "task"
        THEN /\ worker' = [worker EXCEPT ![w].pc = "work", ![w].task = Head(tasks)]
             /\ tasks' = Receive(tasks)
             /\ takenBy' = [takenBy EXCEPT ![Head(tasks).ID] = Append(@, w)]
             /\ wg' = wg
        ELSE /\ worker' = [worker EXCEPT ![w].pc = "done", ![w].exit = c]
             /\ wg' = wg - 1
             /\ UNCHANGED <<tasks, takenBy>>
    /\ UNCHANGED <<config, tasksClosed, results, resultsClosed, quitClosed, genI,
                   genDone, closerPc, sortedResult, colPc, output, panicked,
                   published, recorded, midTask, outOfOrder>>

\* Worker.Start: the select; Go picks any case that can proceed.
WorkerSelect(w) ==
    /\ ~panicked
    /\ worker[w].pc = "select"
    /\ \E c \in ReadyCases :
        IF c = "task"
        THEN /\ worker' = [worker EXCEPT ![w].pc = "work", ![w].task = Head(tasks)]
             /\ tasks' = Receive(tasks)
             /\ takenBy' = [takenBy EXCEPT ![Head(tasks).ID] = Append(@, w)]
             /\ wg' = wg
        ELSE /\ worker' = [worker EXCEPT ![w].pc = "done", ![w].exit = c]
             /\ wg' = wg - 1
             /\ UNCHANGED <<tasks, takenBy>>
    /\ UNCHANGED <<config, tasksClosed, results, resultsClosed, quitClosed, genI,
                   genDone, closerPc, sortedResult, colPc, output, panicked,
                   published, recorded, midTask, outOfOrder>>

\* Mutant: the history is one slice shared by every worker, kept here in the
\* record of worker 0.
WorkerProcessShared(w, d) ==
    /\ ~panicked
    /\ worker[w].pc = "work"
    /\ LET processingTime == simulateDelay + d
           p == processOne(worker[w].task, worker[0].processingTimes,
                           processingTime, worker[w].maxProcessingTimesToTrack)
       IN  /\ worker' = [worker EXCEPT ![w].pc = "send",
                                       ![w].processingTime = processingTime,
                                       ![w].averageTime = p.averageTime,
                                       ![w].result = p.result,
                                       ![0].processingTimes = p.processingTimes]
           /\ recorded' = [recorded EXCEPT ![w] = Append(@, processingTime)]
    /\ UNCHANGED <<config, tasks, tasksClosed, results, resultsClosed, quitClosed,
                   wg, genI, genDone, closerPc, sortedResult, colPc, output,
                   panicked, takenBy, published, midTask, outOfOrder>>

\* Worker.Start: from time.Now() to the decision, for an elapsed time of
\* simulateDelay + d ticks.
WorkerProcess(w, d) ==
    /\ ~panicked
    /\ worker[w].pc = "work"
    /\ LET processingTime == simulateDelay + d
           p == processOne(worker[w].task, worker[w].processingTimes,
                           processingTime, worker[w].maxProcessingTimesToTrack)
       IN  /\ worker' = [worker EXCEPT ![w].pc = "send",
                                       ![w].processingTime = processingTime,
                                       ![w].averageTime = p.averageTime,
                                       ![w].processingTimes = p.processingTimes,
                                       ![w].result = p.result]
           /\ recorded' = [recorded EXCEPT ![w] = Append(@, processingTime)]
    /\ UNCHANGED <<config, tasks, tasksClosed, results, resultsClosed, quitClosed,
                   wg, genI, genDone, closerPc, sortedResult, colPc, output,
                   panicked, takenBy, published, midTask, outOfOrder>>

\* Mutant: the send is abandoned once quit is closed.
WorkerSendUnlessQuit(w) ==
    /\ ~panicked
    /\ worker[w].pc = "send"
    /\ IF quitClosed
       THEN /\ worker' = [worker EXCEPT ![w].pc = "done", ![w].exit = "quit"]
            /\ wg' = wg - 1
            /\ UNCHANGED <<results, published>>
       ELSE /\ Len(results) < resultsCap
            /\ results' = Append(results, Result(worker[w].task, worker[w].result))
            /\ published' = [published EXCEPT ![worker[w].task.ID] =
                                 Append(@, Result(worker[w].task, worker[w].result))]
            /\ worker' = [worker EXCEPT ![w].pc = "select", ![w].task = ZeroTask,
                                        ![w].result = NilInt,
                                        ![w].processingTime = 0,
                                        ![w].averageTime = 0]
            /\ wg' = wg
    /\ UNCHANGED <<config, tasks, tasksClosed, resultsClosed, quitClosed, genI,
                   genDone, closerPc, sortedResult, colPc, output, panicked, takenBy,
                   recorded, midTask, outOfOrder>>

\* SortResults: sortedResult[r.Task.ID] = r
InRange(r) == r.Task.ID \in TaskIds

\* Mutant: the write into the slice is lost.
StoredNowhere(r) == sortedResult

Stored(r) == [sortedResult EXCEPT ![r.Task.ID + 1] = r]

ArrivesLate(r) ==
    \E j \in TaskIds : j > r.Task.ID /\ sortedResult[j + 1] # ZeroResult

\* Worker.Start: w.results <- Result{Task: task, Factorial: result}; the send
\* waits while the buffer is full and panics on a closed channel.  On an
\* unbuffered channel it completes with the receive of the range loop of
\* SortResults.
WorkerSend(w) ==
    /\ ~panicked
    /\ worker[w].pc = "send"
    /\ LET r == Result(worker[w].task, worker[w].result)
           sent == [worker EXCEPT ![w].pc = "select", ![w].task = ZeroTask,
                                  ![w].result = NilInt, ![w].processingTime = 0,
                                  ![w].averageTime = 0]
       IN  IF resultsClosed
           THEN /\ panicked' = TRUE
                /\ UNCHANGED <<results, published, worker, sortedResult, outOfOrder>>
           ELSE IF resultsCap = 0
           THEN /\ colPc = "draining"
                /\ published' = [published EXCEPT ![r.Task.ID] = Append(@, r)]
                /\ worker' = sent
                /\ results' = results
                /\ IF InRange(r)
                   THEN /\ sortedResult' = Stored(r)
                        /\ outOfOrder' = (outOfOrder \/ ArrivesLate(r))
                        /\ panicked' = panicked
                   ELSE /\ panicked' = TRUE
                        /\ UNCHANGED <<sortedResult, outOfOrder>>
           ELSE /\ Len(results) < resultsCap
                /\ results' = Append(results, r)
                /\ published' = [published EXCEPT ![r.Task.ID] = Append(@, r)]
                /\ worker' = sent
                /\ UNCHANGED <<panicked, sortedResult, outOfOrder>>
    /\ UNCHANGED <<config, tasks, tasksClosed, resultsClosed, quitClosed, wg, genI,
                   genDone, closerPc, colPc, output, takenBy, recorded, midTask>>

\* Mutant: close(results) without wg.Wait().
CloserCloseResultsNoWait ==
    /\ ~panicked
    /\ closerPc = "wait"
    /\ resultsClosed' = TRUE
    /\ closerPc' = "closeQuit"
    /\ UNCHANGED <<config, tasks, tasksClosed, results, quitClosed, wg, genI, genDone,
                   worker, sortedResult, colPc, output, panicked, ghosts>>

\* main's goroutine: wg.Wait(); close(results)
CloserCloseResults ==
    /\ ~panicked
    /\ closerPc = "wait"
    /\ wg = 0
    /\ resultsClosed' = TRUE
    /\ closerPc' = "closeQuit"
    /\ UNCHANGED <<config, tasks, tasksClosed, results, quitClosed, wg, genI, genDone, worker, sortedResult, colPc, output, panicked, ghosts>>

\* Mutant: close(quit) is not ordered after wg.Wait().
CloserCloseQuitFirst ==
    /\ ~panicked
    /\ closerPc \in {"wait", "closeQuit"}
    /\ ~quitClosed
    /\ quitClosed' = TRUE
    /\ closerPc' = IF closerPc = "closeQuit" THEN "done" ELSE closerPc
    /\ UNCHANGED <<config, tasks, tasksClosed, results, resultsClosed, wg, genI,
                   genDone, worker, sortedResult, colPc, output, panicked, ghosts>>

\* main's goroutine: close(quit); closing a closed channel panics
CloserCloseQuit ==
    /\ ~panicked
    /\ closerPc = "closeQuit"
    /\ closerPc' = "done"
    /\ IF quitClosed
       THEN panicked' = TRUE /\ quitClosed' = quitClosed
       ELSE quitClosed' = TRUE /\ panicked' = panicked
    /\ UNCHANGED <<config, tasks, tasksClosed, results, resultsClosed, wg, genI,
                   genDone, worker, sortedResult, colPc, output, ghosts>>

\* Mutant: a Result whose id is no index of the slice is skipped.
CollectResultSkipsStray ==
    /\ ~panicked
    /\ colPc = "draining"
    /\ results # <<>>
    /\ LET r == Head(results)
       IN  IF InRange(r)
           THEN /\ sortedResult' = Stored(r)
                /\ outOfOrder' = (outOfOrder \/ ArrivesLate(r))
           ELSE UNCHANGED <<sortedResult, outOfOrder>>
    /\ panicked' = panicked
    /\ results' = Receive(results)
    /\ UNCHANGED <<config, tasks, tasksClosed, resultsClosed, quitClosed, wg, genI,
                   genDone, worker, closerPc, colPc, output, takenBy, published,
                   recorded, midTask>>

\* SortResults: one iteration of  for r := range results
CollectResult ==
    /\ ~panicked
    /\ colPc = "draining"
    /\ results # <<>>
    /\ LET r == Head(results)
       IN  IF InRange(r)
           THEN /\ sortedResult' = Stored(r)
                /\ outOfOrder' = (outOfOrder \/ ArrivesLate(r))
                /\ panicked' = panicked
           ELSE /\ panicked' = TRUE
                /\ UNCHANGED <<sortedResult, outOfOrder>>
    /\ results' = Receive(results)
    /\ UNCHANGED <<config, tasks, tasksClosed, resultsClosed, quitClosed, wg, genI,
                   genDone, worker, closerPc, colPc, output, takenBy, published,
                   recorded, midTask>>

\* Mutant: the loop ends as soon as the channel is empty, closed or not.
CollectReturnOnEmpty ==
    /\ ~panicked
    /\ colPc = "draining"
    /\ results = <<>>
    /\ output' = SortSliceStable(sortedResult)
    /\ colPc' = "complete"
    /\ UNCHANGED <<config, tasks, tasksClosed, results, resultsClosed, quitClosed, wg,
                   genI, genDone, worker, closerPc, sortedResult, panicked,
                   ghosts>>

\* SortResults: the range loop ends on the closed, drained channel; sort; return
CollectReturn ==
    /\ ~panicked
    /\ colPc = "draining"
    /\ results = <<>> /\ resultsClosed
    /\ output' = SortSliceStable(sortedResult)
    /\ colPc' = "complete"
    /\ UNCHANGED <<config, tasks, tasksClosed, results, resultsClosed, quitClosed, wg,
                   genI, genDone, worker, closerPc, sortedResult, panicked,
                   ghosts>>

Next ==
    \/ \E r \in RandSamples : GenSend(r)
    \/ GenClose
    \/ \E w \in Workers : WorkerSelect(w)
    \/ \E w \in Workers : \E d \in Durations : WorkerProcess(w, d)
    \/ \E w \in Workers : WorkerSend(w)
    \/ CloserCloseResults
    \/ CloserCloseQuit
    \/ CollectResult
    \/ CollectReturn

Spec == Init /\ [][Next]_vars

\* The single-worker harness.
NextUnit ==
    \/ TestSend
    \/ TestClose
    \/ \E w \in Workers : WorkerSelect(w)
    \/ \E w \in Workers : \E d \in UnitDurations : WorkerProcess(w, d)
    \/ \E w \in Workers : WorkerSend(w)
    \/ CloserCloseResults
    \/ CloserCloseQuit
    \/ CollectResult
    \/ CollectReturn

SpecUnit == InitUnit /\ [][NextUnit]_vars

\* The pool under an owner that may close quit at any moment; every task
\* carries the smallest value.
NextForced ==
    \/ GenSend(0)
    \/ GenClose
    \/ \E w \in Workers : WorkerSelect(w)
    \/ \E w \in Workers : \E d \in Durations : WorkerProcess(w, d)
    \/ \E w \in Workers : WorkerSend(w)
    \/ CloserCloseResults
    \/ CloserCloseQuit
    \/ CollectResult
    \/ CollectReturn
    \/ ForceShutdown

SpecForced == InitForced /\ [][NextForced]_vars

\* ------------------------------------------------------------------ claims
Holding(w) == worker[w].pc \in {"work", "send"}

K(w) == worker[w].maxProcessingTimesToTrack

LastN(s, n) == IF Len(s) <= n THEN s ELSE SubSeq(s, Len(s) - n + 1, Len(s))

\* The step of worker w from the receive of a task to its pending Result.
Processes(w) == worker[w].pc = "work" /\ worker'[w].pc = "send"

\* C1: when the collector returns, its output has exactly numTasks entries
\* and entry i is the one Result published for task id i, whatever the order
\* in which the Results arrived.
C1_OutputInTaskOrder ==
    colPc = "complete" =>
        /\ Len(output) = numTasks
        /\ \A i \in TaskIds :
            /\ Len(published[i]) = 1
            /\ output[i + 1] = published[i][1]
            /\ output[i + 1].Task.ID = i

C1_Witness ==
    /\ colPc = "complete"
    /\ numTasks >= 2
    /\ outOfOrder

\* C2: a task is received by at most one worker, two workers never hold the
\* same task id, and once every worker has exited each task was received by
\* exactly one worker.
C2_TakenOnce ==
    /\ \A id \in TaskIds : Len(takenBy[id]) <= 1
    /\ \A v, w \in Workers :
           (v # w /\ Holding(v) /\ Holding(w)) => worker[v].task.ID # worker[w].task.ID
    /\ wg = 0 => \A id \in TaskIds : Len(takenBy[id]) = 1

C2_Witness ==
    /\ wg = 0
    /\ numTasks >= 2
    /\ \E i, j \in TaskIds : takenBy[i] # <<>> /\ takenBy[j] # <<>> /\ takenBy[i] # takenBy[j]

\* C3: a worker that has exited has published exactly one Result for every
\* task it received, also when quit was closed while it processed the task
\* and when the Result is the sentinel; no task has more Results than
\* receivers.
C3_TakenIsPublished ==
    /\ \A id \in TaskIds :
        /\ Len(published[id]) <= Len(takenBy[id])
        /\ \A n \in 1 .. Len(published[id]) : published[id][n].Task.ID = id
    /\ \A w \in Workers :
           worker[w].pc = "done" =>
               \A id \in TaskIds :
                   (\E n \in 1 .. Len(takenBy[id]) : takenBy[id][n] = w)
                       => Len(published[id]) = 1

C3_Witness ==
    \E id \in midTask : \E w \in Workers :
        /\ takenBy[id] = <<w>>
        /\ worker[w].pc = "done"
        /\ ~tasksClosed
        /\ Len(published[id]) = 1
        /\ published[id][1].Factorial = 0

\* C4: with avg the mean of the history before the step and d the measured
\* duration, the pending Result is 0 exactly when d > 0, avg > 0 and
\* d > avg + avg/10, and is the factorial of the task value otherwise.
C4_DecisionRule ==
    [][\A w \in Workers :
         Processes(w) =>
            LET d == worker'[w].processingTime
                avg == calculateAverageProcessingTime(worker[w].processingTimes)
                threshold == avg + (avg \div 10)
                anomalous == d > 0 /\ avg > 0 /\ d > threshold
            IN  /\ (worker'[w].result = 0) <=> anomalous
                /\ ~anomalous => worker'[w].result = calcFactorial(worker[w].task.Value)
      ]_vars

C4_Witness ==
    \E w \in Workers :
        /\ worker[w].pc = "send"
        /\ worker[w].averageTime = 100
        /\ worker[w].processingTime = 111
        /\ worker[w].result = 0

\* C5: the integer threshold decides as the exact bound of 110% does: a
\* duration above 1.1 * avg with avg > 0 gives the sentinel, a duration of at
\* most 1.1 * avg gives the factorial.
C5_ExactBound ==
    \A w \in Workers :
        worker[w].pc = "send" =>
            LET d == worker[w].processingTime
                avg == worker[w].averageTime
            IN  /\ (10 * d > 11 * avg /\ avg > 0) => worker[w].result = 0
                /\ (10 * d <= 11 * avg)
                       => worker[w].result = calcFactorial(worker[w].task.Value)

C5_Witness ==
    \E w \in Workers :
        /\ worker[w].pc = "send"
        /\ recorded[w] = <<100, 200, 300, 500>>
        /\ worker[w].averageTime = 200
        /\ worker[w].processingTime = 500
        /\ worker[w].result = 0

\* C6: a task judged against an average of 0 never gets the sentinel.
C6_ZeroAverageNeverAnomalous ==
    \A w \in Workers :
        (worker[w].pc = "send" /\ worker[w].averageTime = 0)
            => /\ worker[w].result # 0
               /\ worker[w].result = calcFactorial(worker[w].task.Value)

C6_Witness ==
    \E w \in Workers :
        /\ worker[w].pc = "send"
        /\ worker[w].averageTime = 0
        /\ Len(recorded[w]) = 3
        /\ SubSeq(recorded[w], 1, 2) = <<0, 1>>
        /\ worker[w].processingTime >= TestDelay
        /\ worker[w].result = 6

\* C7: without an injected delay no Result is the sentinel: one worker with
\* an empty history and the values 3, 5, 7 returns 6, 120, 5040.
C7_NoDelayNoSentinel ==
    (/\ colPc = "complete"
     /\ simulateDelay = 0
     /\ testValues = <<3, 5, 7>>
     /\ Len(recorded[0]) = 3)
        => [i \in 1 .. 3 |-> output[i].Factorial] = <<6, 120, 5040>>

\* C8: the history of a worker never holds more than its capacity.
C8_HistoryBounded ==
    \A w \in Workers : Len(worker[w].processingTimes) <= K(w)

C8_Witness ==
    \E w \in Workers :
        /\ Len(worker[w].processingTimes) = K(w)
        /\ Len(recorded[w]) > K(w) + 1

\* C9: recording d in a full history drops its oldest sample and appends d,
\* in a shorter one it appends d; so the history is always the last K
\* recorded durations in their order.
C9_FifoEviction ==
    /\ [][\A w \in Workers :
            Processes(w) =>
               LET h == worker[w].processingTimes
                   d == worker'[w].processingTime
               IN  worker'[w].processingTimes =
                       IF Len(h) = K(w) THEN Tail(h) \o <<d>> ELSE h \o <<d>>
         ]_vars
    /\ [](\A w \in Workers : worker[w].processingTimes = LastN(recorded[w], K(w)))

C9_Witness ==
    \E w \in Workers :
        /\ K(w) = 2
        /\ worker[w].pc = "done"
        /\ numTasks = 3
        /\ Len(recorded[w]) = 3
        /\ recorded[w][1] # recorded[w][2]
        /\ recorded[w][2] # recorded[w][3]
        /\ worker[w].processingTimes = <<recorded[w][2], recorded[w][3]>>

\* C10: the average a task is judged against is the integer mean of the
\* history before the task's own duration was inserted (0 when empty).
C10_AverageBeforeInsert ==
    [][\A w \in Workers :
         Processes(w) =>
            LET h == worker[w].processingTimes
            IN  worker'[w].averageTime =
                    IF Len(h) = 0 THEN 0 ELSE SumSeq(h) \div Len(h)
      ]_vars

C10_Witness ==
    \E w \in Workers :
        /\ worker[w].pc = "send"
        /\ worker[w].averageTime > 0
        /\ worker[w].averageTime # calculateAverageProcessingTime(worker[w].processingTimes)
        /\ worker[w].result = 0

\* The tasks worker w has finished processing.
ProcessedBy(w) ==
    {id \in TaskIds : takenBy[id] = <<w>> /\ ~(worker[w].pc = "work" /\ worker[w].task.ID = id)}

\* C11: in a pool of several workers the history of a worker holds only the
\* durations of the tasks this worker processed, one per task and the last K of
\* them; it changes only in a processing step of its owner, which changes no
\* other worker, and the average the decision uses is computed from the owner's
\* own earlier durations.
C11_HistoryIsPrivate ==
    /\ [](\A w \in Workers :
            /\ Len(recorded[w]) = Cardinality(ProcessedBy(w))
            /\ worker[w].processingTimes = LastN(recorded[w], K(w)))
    /\ [][\A w \in Workers :
            /\ worker'[w].processingTimes # worker[w].processingTimes => Processes(w)
            /\ Processes(w) =>
                 /\ \A v \in Workers \ {w} : worker'[v] = worker[v]
                 /\ worker'[w].averageTime =
                        calculateAverageProcessingTime(LastN(recorded[w], K(w)))
                 /\ (worker'[w].result = 0) <=>
                        exceedsLimit(worker'[w].processingTime, worker'[w].averageTime)]_vars

C11_Witness ==
    /\ numWorkers = 2
    /\ recorded[0] = <<1>> /\ worker[0].processingTimes = <<1>>
    /\ recorded[1] = <<2>> /\ worker[1].processingTimes = <<2>>
    /\ worker[0].pc = "send" /\ worker[1].pc = "send"

Running == {w \in Workers : worker[w].pc # "done"}

Exits(w) == worker[w].pc # "done" /\ worker'[w].pc = "done"

\* C12: a worker reports completion to the wait group exactly once, in the step
\* in which it returns, whichever case of the select it returns through; so the
\* counter equals the number of workers still running, is never negative, and
\* is zero only when every started worker has returned.
C12_DoneOncePerWorker ==
    /\ [](/\ wg = Cardinality(Running)
          /\ wg >= 0
          /\ (wg = 0 => \A w \in Workers : worker[w].pc = "done")
          /\ \A w \in Workers :
                 worker[w].pc = "done" <=> worker[w].exit \in {"closed", "quit"})
    /\ [][/\ wg' = wg - Cardinality({w \in Workers : Exits(w)})
          /\ \A w \in Workers : worker[w].pc = "done" => worker'[w] = worker[w]]_vars

C12_Witness ==
    /\ numWorkers = 2 /\ wg = 0
    /\ worker[0].exit = "quit" /\ worker[1].exit = "closed"

\* C13: the results channel is closed once, by the close statement that follows
\* wg.Wait(), and then every worker has reported completion: no worker is left
\* that could send on the closed channel, and no Result is published after the
\* close.
C13_ResultsClosedAfterWorkers ==
    /\ [](resultsClosed =>
            /\ wg = 0
            /\ closerPc # "wait"
            /\ \A w \in Workers : worker[w].pc = "done")
    /\ [][/\ (~resultsClosed /\ resultsClosed') => (closerPc = "wait" /\ closerPc' = "closeQuit")
          /\ resultsClosed =>
                /\ resultsClosed'
                /\ closerPc' # "wait"
                /\ published' = published
                /\ Len(results') <= Len(results)]_vars

C13_Witness ==
    /\ resultsClosed
    /\ numWorkers = 2 /\ numTasks = 2
    /\ Len(results) = 2
    /\ \A id \in TaskIds : Len(published[id]) = 1

\* C14: the reference coordinator closes quit once, after wg.Wait() and
\* close(results): by then the tasks channel is closed and drained and every
\* worker has returned, each through the closed-queue return; no worker returns
\* through the quit case, and the close never panics.
C14_QuitClosedLast ==
    /\ [](/\ ~panicked
          /\ \A w \in Workers : worker[w].exit # "quit"
          /\ quitClosed =>
                /\ closerPc = "done"
                /\ resultsClosed /\ wg = 0
                /\ tasksClosed /\ tasks = <<>>
                /\ \A w \in Workers : worker[w].pc = "done" /\ worker[w].exit = "closed")
    /\ [][/\ quitClosed => quitClosed'
          /\ (~quitClosed /\ quitClosed') => (closerPc = "closeQuit" /\ closerPc' = "done")
          /\ closerPc = "done" => closerPc' = "done"]_vars

C14_Witness ==
    /\ quitClosed
    /\ numWorkers = 2 /\ numTasks = 2
    /\ \A w \in Workers : worker[w].exit = "closed"
    /\ takenBy[0] # takenBy[1]

\* C15: once quit is closed no worker receives a further task, even when tasks
\* are pending.
C15_NoTakeAfterShutdown ==
    [][quitClosed => takenBy' = takenBy]_vars

\* Forced runs in which every task takes one tick, under a Go scheduler that
\* runs every goroutine that can take a step: a worker that can receive,
\* compute or send eventually does, and the range loop of SortResults keeps
\* receiving.  Nothing is assumed of the generator or of the owner of quit.
NextShutdown ==
    \/ GenSend(0)
    \/ GenClose
    \/ \E w \in Workers : WorkerSelect(w)
    \/ \E w \in Workers : WorkerProcess(w, 1)
    \/ \E w \in Workers : WorkerSend(w)
    \/ CloserCloseResults
    \/ CloserCloseQuit
    \/ CollectResult
    \/ CollectReturn
    \/ ForceShutdown

WorkersFair ==
    \A w \in 0 .. (MaxWorkers - 1) :
        /\ WF_vars(w \in Workers /\ WorkerSelect(w))
        /\ WF_vars(w \in Workers /\ WorkerProcess(w, 1))
        /\ WF_vars(w \in Workers /\ WorkerSend(w))

CollectorFair == WF_vars(CollectResult) /\ WF_vars(CollectReturn)

SpecShutdown ==
    InitForced /\ [][NextShutdown]_vars /\ WorkersFair /\ CollectorFair

AllExited == \A w \in Workers : worker[w].pc = "done"

\* C16: when quit is closed while the tasks channel is still open, every worker
\* eventually returns, also one that waits on an empty tasks channel which the
\* generator never closes; a worker that has returned takes no further step.
C16_ShutdownReleasesWorkers ==
    /\ (quitClosed /\ ~tasksClosed) ~> AllExited
    /\ [][\A w \in Workers : worker[w].exit # "none" => worker'[w] = worker[w]]_vars

C16_Witness ==
    /\ numWorkers = 2 /\ numTasks = 2
    /\ quitClosed /\ ~tasksClosed /\ tasks = <<>> /\ genI = 0
    /\ \A w \in Workers : worker[w].pc = "done" /\ worker[w].exit = "quit"

\* The pool of main over channels of every capacity: a buffer of numTasks or
\* more never fills, so the capacities range over 0 .. numTasks, 0 being the
\* unbuffered channel.
InitLive ==
    /\ numTasks \in 0 .. MaxTasks
    /\ numWorkers \in 1 .. MaxWorkers
    /\ testValues = <<>>
    /\ simulateDelay = 0
    /\ worker = [w \in Workers |-> NewWorker(maxProcessingTimesToTrack, <<>>)]
    /\ recorded = [w \in Workers |-> <<>>]
    /\ tasksCap \in 0 .. numTasks
    /\ resultsCap \in 0 .. numTasks
    /\ input = <<>>
    /\ InitRun

\* Every task takes one tick.
NextLive ==
    \/ GenSend(0)
    \/ GenClose
    \/ \E w \in Workers : WorkerSelect(w)
    \/ \E w \in Workers : WorkerProcess(w, 1)
    \/ \E w \in Workers : WorkerSend(w)
    \/ CloserCloseResults
    \/ CloserCloseQuit
    \/ CollectResult
    \/ CollectReturn

\* Every goroutine of main that can take a step eventually takes one.
LiveFair ==
    /\ WF_vars(GenSend(0)) /\ WF_vars(GenClose)
    /\ WorkersFair
    /\ WF_vars(CloserCloseResults) /\ WF_vars(CloserCloseQuit)
    /\ CollectorFair

SpecLive == InitLive /\ [][NextLive]_vars /\ LiveFair

Completed ==
    /\ genDone /\ tasksClosed
    /\ AllExited
    /\ resultsClosed /\ closerPc = "done"
    /\ colPc = "complete"

\* C17: for 0 .. MaxTasks tasks, 1 .. MaxWorkers workers and every capacity of
\* the two channels, a fairly scheduled run of the reference pool completes:
\* the generator has closed the tasks channel, every worker has returned, the
\* results channel is closed and SortResults has returned.  Until then some
\* goroutine can always take a step, and nothing panics.
C17_RunCompletes ==
    /\ <>Completed
    /\ [](Completed \/ ENABLED NextLive)
    /\ [](~panicked)

C17_Witness ==
    /\ Completed
    /\ numTasks = 2 /\ numWorkers = 2
    /\ tasksCap = 0 /\ resultsCap = 1
    /\ Len(output) = 2

\* C18: SortResults returns once, in a step that sees the results channel
\* closed and empty.  When it has returned, every worker has returned, no
\* Result is queued, and every Result that was published sits at its index in
\* the slice that was sorted; afterwards the output does not change.
C18_CompleteOnceOnClose ==
    /\ [](colPc = "complete" =>
            /\ resultsClosed /\ results = <<>>
            /\ wg = 0 /\ AllExited
            /\ \A id \in TaskIds : \A n \in 1 .. Len(published[id]) :
                   sortedResult[id + 1] = published[id][n])
    /\ [][/\ (colPc = "draining" /\ colPc' = "complete") =>
                (resultsClosed /\ results = <<>> /\ output = <<>>)
          /\ colPc = "complete" =>
                (colPc' = "complete" /\ output' = output /\ sortedResult' = sortedResult)]_vars

C18_Witness ==
    /\ colPc = "complete"
    /\ numTasks = 2 /\ numWorkers = 2
    /\ outOfOrder
    /\ closerPc = "closeQuit"
    /\ \A id \in TaskIds : published[id] # <<>>

\* C19: whenever SortResults has returned, also after a forced shutdown, the
\* output has length numTasks and every index in 0 .. numTasks - 1 was written
\* once, with the Result of the task of that id.
C19_EveryPositionWritten ==
    colPc = "complete" =>
        /\ Len(output) = numTasks
        /\ \A id \in TaskIds :
               /\ Len(published[id]) = 1
               /\ sortedResult[id + 1] = published[id][1]
               /\ sortedResult[id + 1] # ZeroResult

\* SortResults(results, length) on its own: the caller has put any Results on
\* the channel, with ids inside and outside 0 .. length - 1, and closed it.
InputResults ==
    {Result(Task(id, RandOffset), f) :
        id \in -1 .. MaxInput, f \in {0, calcFactorial(RandOffset)}}

InitCollect ==
    /\ numTasks \in 0 .. MaxInput
    /\ numWorkers = 0
    /\ testValues = <<>>
    /\ simulateDelay = 0
    /\ input \in SeqsUpTo(InputResults, MaxInput)
    /\ tasksCap = 0 /\ resultsCap = Len(input)
    /\ globalTimes = <<>>
    /\ worker = [w \in Workers |-> NewWorker(maxProcessingTimesToTrack, <<>>)]
    /\ recorded = [w \in Workers |-> <<>>]
    /\ tasks = <<>> /\ tasksClosed = TRUE
    /\ results = input /\ resultsClosed = TRUE
    /\ quitClosed = FALSE
    /\ wg = 0 /\ genI = 0 /\ genDone = TRUE
    /\ closerPc = "done"
    /\ sortedResult = [i \in 1 .. numTasks |-> ZeroResult]
    /\ colPc = "draining" /\ output = <<>>
    /\ panicked = FALSE
    /\ takenBy = [id \in TaskIds |-> <<>>]
    /\ published = [id \in TaskIds |-> <<>>]
    /\ midTask = {}
    /\ outOfOrder = FALSE

NextCollect ==
    \/ CollectResult
    \/ CollectReturn

SpecCollect == InitCollect /\ [][NextCollect]_vars

\* The Results SortResults has received so far.
Received == SubSeq(input, 1, Len(input) - Len(results))

HasStray(s) == \E n \in 1 .. Len(s) : ~InRange(s[n])

\* C20: a Result whose task id is no index of the slice makes SortResults panic
\* in the iteration that receives it: it is neither stored nor skipped, the
\* function does not return and no output exists.
C20_StrayIdPanics ==
    /\ HasStray(Received) <=> panicked
    /\ panicked => (colPc = "draining" /\ output = <<>>)
    /\ HasStray(input) => colPc # "complete"
    /\ Len(sortedResult) = numTasks
    /\ \A i \in 1 .. numTasks :
           sortedResult[i] = ZeroResult \/ sortedResult[i].Task.ID = i - 1

C20_Witness ==
    /\ panicked
    /\ numTasks = 2
    /\ Len(Received) = 2 /\ results # <<>>
    /\ Received[1].Task.ID = 1 /\ Received[2].Task.ID = 2
    /\ sortedResult[2] = Received[1]

\* C21: SortResults never returns when a task id arrived twice or when some
\* index in 0 .. numTasks - 1 received no Result: no returned slice holds a
\* Result that overwrote another, or a position that was never written.
C21_NoSilentAbsorb ==
    colPc = "complete" =>
        /\ \A m, n \in 1 .. Len(input) :
               input[m].Task.ID = input[n].Task.ID => m = n
        /\ \A id \in TaskIds : \E n \in 1 .. Len(input) : input[n].Task.ID = id
        /\ \A id \in TaskIds : output[id + 1] # ZeroResult

\* GenerateTasks(numTasks, tasks) on its own, as TestGenerateTasks calls it: a
\* channel of capacity numTasks and nobody receiving.  rand.Intn(998) returns
\* any number in 0 .. 997; the runs draw it from both ends and the middle of
\* that range.
IntnSamples == {0, 1, 2, 498, 499, IntnBound - 3, IntnBound - 2, IntnBound - 1}

InitGen ==
    /\ numTasks \in 0 .. MaxTasks
    /\ numWorkers = 0
    /\ testValues = <<>>
    /\ simulateDelay = 0
    /\ worker = [w \in Workers |-> NewWorker(maxProcessingTimesToTrack, <<>>)]
    /\ recorded = [w \in Workers |-> <<>>]
    /\ InitShared

NextGen ==
    \/ \E r \in IntnSamples : GenSend(r)
    \/ GenClose

SpecGen == InitGen /\ [][NextGen]_vars

\* C22: GenerateTasks sends exactly numTasks tasks with the ids 0, 1, ... in
\* this order, none twice, and closes the channel once, in a step after the last
\* send; with numTasks = 0 it closes without sending.
C22_DenseIdsThenClose ==
    /\ [](/\ genI <= numTasks
          /\ Len(tasks) = genI
          /\ \A i \in 1 .. Len(tasks) : tasks[i].ID = i - 1
          /\ tasksClosed <=> genDone
          /\ tasksClosed => Len(tasks) = numTasks)
    /\ [][/\ tasksClosed' # tasksClosed =>
                (~tasksClosed /\ genI = numTasks /\ tasks' = tasks)
          /\ tasks' # tasks =>
                /\ ~tasksClosed /\ ~tasksClosed'
                /\ genI' = genI + 1
                /\ Len(tasks') = Len(tasks) + 1
                /\ SubSeq(tasks', 1, Len(tasks)) = tasks]_vars

C22_Witness ==
    /\ tasksClosed /\ numTasks = 2
    /\ tasks[1].ID = 0 /\ tasks[2].ID = 1

\* C23: every task GenerateTasks sends carries a value r + 3 with r in 0 .. 997,
\* that is a value in 3 .. 1000; 3 and 1000 both occur.
C23_ValueInRange ==
    \A i \in 1 .. Len(tasks) :
        /\ tasks[i].Value >= 3 /\ tasks[i].Value <= 1000
        /\ tasks[i].Value - RandOffset \in 0 .. (IntnBound - 1)

C23_Witness ==
    /\ tasksClosed /\ numTasks = 2
    /\ tasks[1].Value = 3 /\ tasks[2].Value = 1000

\* C24: every published Result carries the task its worker received and, in
\* WorkerID, the id of that worker.
C24_ResultNamesWorker ==
    \A id \in TaskIds : \A n \in 1 .. Len(published[id]) :
        /\ published[id][n].Task.ID = id
        /\ published[id][n].Task.Value \in {r + RandOffset : r \in RandSamples}
        /\ published[id][n].WorkerID = takenBy[id][n]

\* The tasks worker w has received, and those of them it has not published.
ReceivedBy(w) == {id \in TaskIds : takenBy[id] = <<w>>}

Unpublished(w) == {id \in ReceivedBy(w) : published[id] = <<>>}

\* C25: a worker handles one task at a time, in the order it received them: the
\* only received task it has not yet published is the one it holds, it receives
\* the next one only when none is left unpublished, and its Results stand in
\* the results channel in the order of reception (ascending id, the order of
\* the tasks channel).
C25_OneTaskAtATime ==
    /\ [](\A w \in Workers :
            /\ Cardinality(Unpublished(w)) <= 1
            /\ \A id \in Unpublished(w) : Holding(w) /\ worker[w].task.ID = id
            /\ \A i, j \in ReceivedBy(w) :
                   (i < j /\ published[j] # <<>>) => published[i] # <<>>
            /\ \A m, n \in 1 .. Len(results) :
                   (m < n /\ takenBy[results[m].Task.ID] = <<w>>
                          /\ takenBy[results[n].Task.ID] = <<w>>)
                       => results[m].Task.ID < results[n].Task.ID)
    /\ [][\A w \in Workers : \A id \in TaskIds :
            (takenBy[id] = <<>> /\ takenBy'[id] = <<w>>) =>
                (Unpublished(w) = {} /\ \A i \in ReceivedBy(w) : i < id)]_vars

C25_Witness ==
    /\ numTasks = 2 /\ numWorkers = 2
    /\ takenBy[0] = <<1>> /\ takenBy[1] = <<1>>
    /\ Len(results) = 2
    /\ results[1].Task.ID = 0 /\ results[2].Task.ID = 1

\* calcFactorial on its own, as the table-driven TestCalcFactorial calls it:
\* each call becomes one Result in output.  The arguments stay below 13, whose
\* factorial is the first to exceed the integers of the model checker; big.Int
\* itself has no such limit.
FactArgs == -3 .. 12

InitFact ==
    /\ numTasks = 0
    /\ numWorkers = 0
    /\ testValues \in SeqsUpTo(FactArgs, MaxTable)
    /\ simulateDelay = 0
    /\ worker = [w \in Workers |-> NewWorker(maxProcessingTimesToTrack, <<>>)]
    /\ recorded = [w \in Workers |-> <<>>]
    /\ tasksCap = 0 /\ resultsCap = 0
    /\ input = <<>>
    /\ globalTimes = <<>>
    /\ tasks = <<>> /\ tasksClosed = TRUE
    /\ results = <<>> /\ resultsClosed = TRUE
    /\ quitClosed = FALSE
    /\ wg = 0 /\ genI = 0 /\ genDone = FALSE
    /\ closerPc = "done"
    /\ sortedResult = <<>>
    /\ colPc = "complete" /\ output = <<>>
    /\ panicked = FALSE
    /\ takenBy = [id \in TaskIds |-> <<>>]
    /\ published = [id \in TaskIds |-> <<>>]
    /\ midTask = {}
    /\ outOfOrder = FALSE

\* TestCalcFactorial: result := calcFactorial(test.n), for the next table row
TestCalc ==
    /\ genI < Len(testValues)
    /\ LET n == testValues[genI + 1]
       IN  output' = Append(output, Result(Task(genI, n), calcFactorial(n)))
    /\ genI' = genI + 1
    /\ UNCHANGED <<config, tasks, tasksClosed, results, resultsClosed, quitClosed, wg,
                   genDone, worker, closerPc, sortedResult, colPc, panicked,
                   ghosts>>

NextFact == TestCalc

SpecFact == InitFact /\ [][NextFact]_vars

\* C26: calcFactorial returns a value for every argument: n! for n >= 0, with
\* calcFactorial(0) = 1, calcFactorial(5) = 120 and calcFactorial(7) = 5040,
\* and 0 for n < 0; calls with the same argument return the same value.
C26_FactorialTotal ==
    LET F[k \in 0 .. 12] == IF k = 0 THEN 1 ELSE k * F[k - 1]
    IN  /\ Len(output) = genI
        /\ \A i \in 1 .. Len(output) :
               LET n == output[i].Task.Value
                   f == output[i].Factorial
               IN  /\ n = testValues[i]
                   /\ n < 0 => f = 0
                   /\ n >= 0 => (f = F[n] /\ f >= 1)
                   /\ n = 0 => f = 1
                   /\ n = 5 => f = 120
                   /\ n = 7 => f = 5040
                   /\ n = 10 => f = 3628800
        /\ \A i, j \in 1 .. Len(output) :
               output[i].Task.Value = output[j].Task.Value =>
                   output[i].Factorial = output[j].Factorial

C26_Witness ==
    /\ Len(output) = 2
    /\ output[1].Task.Value = 7 /\ output[1].Factorial = 5040
    /\ output[2].Task.Value = -1 /\ output[2].Factorial = 0

\* C27: a Result of the pool has Factorial 0 exactly when the anomaly rule
\* fired for its task: task values are not negative, and the factorial of a
\* value that is not negative is at least 1.
C27_SentinelMeansAnomaly ==
    /\ \A n \in 0 .. 12 : calcFactorial(n) >= 1
    /\ \A w \in Workers :
           worker[w].pc = "send" =>
               LET fired == exceedsLimit(worker[w].processingTime, worker[w].averageTime)
               IN  /\ worker[w].task.Value >= 0
                   /\ worker[w].result = 0 <=> fired
                   /\ ~fired => /\ worker[w].result = calcFactorial(worker[w].task.Value)
                                /\ worker[w].result >= 1
    /\ \A id \in TaskIds : \A n \in 1 .. Len(published[id]) :
           published[id][n].Factorial = 0 \/ published[id][n].Factorial >= 1

C27_Witness ==
    /\ numTasks = 2
    /\ Len(published[0]) = 1 /\ published[0][1].Factorial = 6
    /\ \E w \in Workers :
           /\ worker[w].pc = "send" /\ worker[w].task.ID = 1
           /\ worker[w].result = 0
           /\ exceedsLimit(worker[w].processingTime, worker[w].averageTime)

MinOf(a, b) == IF a <= b THEN a ELSE b

\* C28 as stated: every duration is inserted, also that of a task judged
\* anomalous, and inserting an anomalous duration raises the average.
C28_AnomalyRaisesAverage ==
    [][\A w \in Workers :
         Processes(w) =>
            LET h == worker[w].processingTimes
                hNew == worker'[w].processingTimes
            IN  /\ hNew # <<>> /\ hNew[Len(hNew)] = worker'[w].processingTime
                /\ worker'[w].result = 0 =>
                       calculateAverageProcessingTime(hNew) >
                           calculateAverageProcessingTime(h)]_vars

\* C28, amended: every duration is inserted as the newest entry, also that of
\* a task judged anomalous; from an empty history the history holds the last
\* min(n, K) durations after n tasks; an anomalous duration is part of the
\* average of later tasks, which it does not lower as long as nothing is
\* evicted.
C28_AnomalyIsInserted ==
    /\ [][\A w \in Workers :
            Processes(w) =>
               LET h == worker[w].processingTimes
                   hNew == worker'[w].processingTimes
               IN  /\ Len(hNew) = MinOf(Len(h) + 1, K(w))
                   /\ hNew[Len(hNew)] = worker'[w].processingTime
                   /\ (worker'[w].result = 0 /\ Len(h) < K(w)) =>
                          calculateAverageProcessingTime(hNew) >=
                              calculateAverageProcessingTime(h)]_vars
    /\ [](\A w \in Workers :
            LET n == Cardinality(ProcessedBy(w))
            IN  Len(recorded[w]) = n =>
                    /\ Len(worker[w].processingTimes) = MinOf(n, K(w))
                    /\ worker[w].processingTimes = LastN(recorded[w], K(w)))

C28_Witness ==
    \E w \in Workers :
        /\ worker[w].pc = "send" /\ worker[w].task.ID = 2
        /\ K(w) = 2
        /\ recorded[w] = <<1, 100, 1>>
        /\ published[1][1].Factorial = 0
        /\ worker[w].averageTime = 50
        /\ worker[w].processingTimes = <<100, 1>>

\* Tasks in the hands of a worker, Results the collector has stored, and
\* Results ever sent.
HeldCount == Cardinality({w \in Workers : Holding(w)})

PlacedCount == Cardinality({i \in 1 .. Len(sortedResult) : sortedResult[i] # ZeroResult})

PublishedCount ==
    LET S[i \in 0 .. numTasks] == IF i = 0 THEN 0 ELSE S[i - 1] + Len(published[i - 1])
    IN  S[numTasks]

\* C29: the tasks the generator has sent are, at every moment, exactly those
\* waiting in the tasks channel, held by a worker, waiting as Results in the
\* results channel, or stored by SortResults; no more Results were published
\* than tasks sent, and no more tasks sent than numTasks.
C29_TaskConservation ==
    /\ genI = Len(tasks) + HeldCount + Len(results) + PlacedCount
    /\ PublishedCount = Len(results) + PlacedCount
    /\ PublishedCount <= genI
    /\ genI <= numTasks

C29_Witness ==
    /\ numTasks = 2 /\ numWorkers = 2
    /\ genI = 2
    /\ HeldCount = 1 /\ PlacedCount = 1
    /\ ~quitClosed

\* C30: when the Results delivered to SortResults have distinct ids, all of
\* them indices of the slice, every delivered Result is returned at the index
\* equal to its task id, also when some ids never arrive.
C30_SortMovesNothing ==
    (/\ colPc = "complete"
     /\ \A n \in 1 .. Len(input) : InRange(input[n])
     /\ \A m, n \in 1 .. Len(input) : input[m].Task.ID = input[n].Task.ID => m = n)
    => \A n \in 1 .. Len(input) : output[input[n].Task.ID + 1] = input[n]

\* ------------------------------------------------ the shared-history snapshot
\* The pool of the snapshot whose workers share one package-level history:
\* calculateAverageProcessingTime and updateProcessingTimes each hold
\* processingTimeLock from their first to their last statement, so each is one
\* step, and Worker.Start calls one after the other.
InitGlobal ==
    /\ numTasks \in 0 .. MaxTasks
    /\ numWorkers \in 1 .. MaxWorkers
    /\ testValues = <<>>
    /\ simulateDelay = 0
    /\ \E k \in Capacities :
           worker = [w \in Workers |-> NewWorker(k, <<>>)]
    /\ recorded = [w \in Workers |-> <<>>]
    /\ InitShared

\* Worker.Start: processingTime := time.Since(startTime);
\* averageTime := w.calculateAverageProcessingTime()
SharedAverage(w, d) ==
    /\ ~panicked
    /\ worker[w].pc = "work"
    /\ worker' = [worker EXCEPT
                     ![w].pc = "insert",
                     ![w].processingTime = simulateDelay + d,
                     ![w].averageTime = calculateAverageProcessingTime(globalTimes)]
    /\ UNCHANGED <<config, tasks, tasksClosed, results, resultsClosed, quitClosed,
                   wg, genI, genDone, closerPc, sortedResult, colPc, output,
                   panicked, ghosts>>

\* Mutant: the average is read again inside the critical section of the insert.
SharedInsertRereads(w) ==
    /\ ~panicked
    /\ worker[w].pc = "insert"
    /\ LET averageTime == calculateAverageProcessingTime(globalTimes)
       IN  /\ globalTimes' = updateProcessingTimes(globalTimes, worker[w].processingTime,
                                                   worker[w].maxProcessingTimesToTrack)
           /\ worker' = [worker EXCEPT
                            ![w].pc = "send",
                            ![w].averageTime = averageTime,
                            ![w].result =
                                IF exceedsLimit(worker[w].processingTime, averageTime)
                                THEN 0 ELSE calcFactorial(worker[w].task.Value)]
    /\ recorded' = [recorded EXCEPT ![w] = Append(@, worker[w].processingTime)]
    /\ UNCHANGED <<numTasks, numWorkers, testValues, simulateDelay, tasksCap,
                   resultsCap, input, tasks, tasksClosed, results, resultsClosed,
                   quitClosed, wg, genI, genDone, closerPc, sortedResult, colPc,
                   output, panicked, takenBy, published, midTask, outOfOrder>>

\* Worker.Start: w.updateProcessingTimes(processingTime), then the decision on
\* the average read before.
SharedInsert(w) ==
    /\ ~panicked
    /\ worker[w].pc = "insert"
    /\ globalTimes' = updateProcessingTimes(globalTimes, worker[w].processingTime,
                                            worker[w].maxProcessingTimesToTrack)
    /\ worker' = [worker EXCEPT
                     ![w].pc = "send",
                     ![w].result =
                         IF exceedsLimit(worker[w].processingTime, worker[w].averageTime)
                         THEN 0 ELSE calcFactorial(worker[w].task.Value)]
    /\ recorded' = [recorded EXCEPT ![w] = Append(@, worker[w].processingTime)]
    /\ UNCHANGED <<numTasks, numWorkers, testValues, simulateDelay, tasksCap,
                   resultsCap, input, tasks, tasksClosed, results, resultsClosed,
                   quitClosed, wg, genI, genDone, closerPc, sortedResult, colPc,
                   output, panicked, takenBy, published, midTask, outOfOrder>>

\* Worker.Start: w.results <- model.Result{Task: task, Factorial: result,
\* WorkerID: w.ID}
SharedSend(w) ==
    /\ ~panicked
    /\ worker[w].pc = "send"
    /\ LET r == [Result(worker[w].task, worker[w].result) EXCEPT !.WorkerID = w]
       IN  IF resultsClosed
           THEN /\ panicked' = TRUE
                /\ UNCHANGED <<results, published, worker>>
           ELSE /\ Len(results) < resultsCap
                /\ results' = Append(results, r)
                /\ published' = [published EXCEPT ![r.Task.ID] = Append(@, r)]
                /\ worker' = [worker EXCEPT ![w].pc = "select", ![w].task = ZeroTask,
                                            ![w].result = NilInt,
                                            ![w].processingTime = 0,
                                            ![w].averageTime = 0]
                /\ panicked' = panicked
    /\ UNCHANGED <<config, tasks, tasksClosed, resultsClosed, quitClosed, wg, genI,
                   genDone, closerPc, sortedResult, colPc, output, takenBy,
                   recorded, midTask, outOfOrder>>

NextGlobal ==
    \/ GenSend(0)
    \/ GenClose
    \/ \E w \in Workers : WorkerSelect(w)
    \/ \E w \in Workers : \E d \in Durations : SharedAverage(w, d)
    \/ \E w \in Workers : SharedInsert(w)
    \/ \E w \in Workers : SharedSend(w)
    \/ CloserCloseResults
    \/ CloserCloseQuit
    \/ CollectResult
    \/ CollectReturn

SpecGlobal == InitGlobal /\ [][NextGlobal]_vars

Inserts(w) == worker[w].pc = "insert" /\ worker'[w].pc = "send"

\* C31 as stated: when a worker inserts the duration of its task, the average
\* it judges the task against is the mean of the shared history as it is at
\* that moment.
C31_AverageOfHistoryAtInsert ==
    [][\A w \in Workers :
         Inserts(w) =>
            worker[w].averageTime = calculateAverageProcessingTime(globalTimes)]_vars

\* C31, amended: the average is the mean of the shared history as it is when
\* the worker reads it, and it is what the task is judged against; the insert
\* is a separate critical section that appends to the history as it is then,
\* which other workers may have changed in between.  With a single worker the
\* two histories are the same.
C31_AverageOfHistoryAtRead ==
    /\ [][\A w \in Workers :
            /\ (worker[w].pc = "work" /\ worker'[w].pc = "insert") =>
                   /\ worker'[w].averageTime = calculateAverageProcessingTime(globalTimes)
                   /\ globalTimes' = globalTimes
            /\ Inserts(w) =>
                   /\ worker'[w].averageTime = worker[w].averageTime
                   /\ (worker'[w].result = 0) <=>
                          exceedsLimit(worker[w].processingTime, worker[w].averageTime)
                   /\ globalTimes' =
                          IF Len(globalTimes) >= K(w)
                          THEN Tail(globalTimes) \o <<worker[w].processingTime>>
                          ELSE globalTimes \o <<worker[w].processingTime>>
            /\ globalTimes' # globalTimes => \E v \in Workers : Inserts(v)]_vars
    /\ [](\A w \in Workers :
            /\ Len(globalTimes) <= K(w)
            /\ (numWorkers = 1 /\ worker[w].pc = "insert") =>
                   worker[w].averageTime = calculateAverageProcessingTime(globalTimes))

C31_Witness ==
    /\ numWorkers = 2 /\ numTasks = 2
    /\ worker[0].pc = "send" /\ recorded[0] = <<1>>
    /\ worker[1].pc = "insert" /\ worker[1].processingTime = 2
    /\ worker[1].averageTime = 0
    /\ globalTimes = <<1>>

====
